---- MODULE Spec2Model ----
(***************************************************************************)
(* Model of the MO2 simple installer core (src/src.cpp): the process-wide  *)
(* flag table, the dependency evaluator, the layout classifier, the        *)
(* nested-folder resolver and the FOMOD (module-config) engine of          *)
(* install().                                                              *)
(*                                                                         *)
(* Strings that the code converts (to_lower, XPath normalize-space) are    *)
(* sequences of one-character strings, so that the conversions are         *)
(* computed; all other strings (flag names and values, source and          *)
(* destination attributes, messages) are opaque TLA+ strings.              *)
(***************************************************************************)
EXTENDS Integers, Sequences, FiniteSets, TLC

VARIABLES
    pluginFlags,   \* global std::unordered_map pluginFlags (flag name -> value)
    outputPath,    \* static std::string outputPath of install()
    pc,            \* position of the current install() call
    runs,          \* number of install() calls made by this host so far
    tree,          \* extracted archive tree below newTempDir/archive
    jsonFile,      \* the file at jPath (<archive stem>.json)
    xmlDoc,        \* the ModuleConfig.xml of the fomod folder
    fomodFolder,   \* local fs::path fomodFolder (<<>> when empty)
    selIdx,        \* index of the installFiles element being processed
    nodeIdx,       \* index into the node set selected for that element
    patIdx,        \* index of the conditional pattern being processed
    plan,          \* the copyFile / copyFolder calls made so far, in order
    skipped,       \* plugin nodes skipped by `continue` at line 570
    finalCalls,    \* the copies of lines 627-630, once made
    results,       \* how each call of plan ended: copied, missing, error, fatal
    disk,          \* the staging directory newTempDir/unfomod, the directory at
                   \* modPath, and the behaviour of fs::copy on a directory
    startFlags,    \* pluginFlags as it was when the call began
    error,         \* e.what() of the exception caught at line 637, or ""
    returned,      \* what the caller reads through the returned pointer
    prev,          \* outcome of the previous call (re-install scenario)
    evalNode,      \* argument of the last stand-alone areDependenciesMet call
    evalResult     \* its result

vars == << pluginFlags, outputPath, pc, runs, tree, jsonFile, xmlDoc,
           fomodFolder, selIdx, nodeIdx, patIdx, plan, skipped, finalCalls,
           startFlags, results, disk,
           error, returned, prev, evalNode, evalResult >>

(***************************************************************************)
(* Bounds of the model.                                                    *)
(***************************************************************************)
MaxDeps == 2        \* flagDependency children of one dependencies node
MaxRuns == 2        \* install() calls per behaviour
MaxSelectors == 2   \* elements of the installFiles array

(***************************************************************************)
(* Characters and names.                                                   *)
(***************************************************************************)
UpperChars == << "A", "B", "C", "D", "E", "F", "G", "H", "I", "J", "K", "L", "M",
                 "N", "O", "P", "Q", "R", "S", "T", "U", "V", "W", "X", "Y", "Z" >>
LowerChars == << "a", "b", "c", "d", "e", "f", "g", "h", "i", "j", "k", "l", "m",
                 "n", "o", "p", "q", "r", "s", "t", "u", "v", "w", "x", "y", "z" >>

\* (a conversion that leaves the case of letters as it is)
tolowerIdentity(c) == c

\* std::tolower on one character (C locale).
tolower(c) ==
    IF \E i \in 1..Len(UpperChars) : UpperChars[i] = c
    THEN LowerChars[CHOOSE i \in 1..Len(UpperChars) : UpperChars[i] = c]
    ELSE c

\* std::string to_lower(const std::string&): std::transform with tolower.
to_lower(input) == [i \in 1..Len(input) |-> tolower(input[i])]

(***************************************************************************)
(* Flag table and dependency evaluator.                                    *)
(***************************************************************************)
NoAttr == "<no attribute>"      \* pugixml: the attribute is not on the node
EmptyFlags == [n \in {} |-> ""]

\* (an insertion that keeps the value of a key that exists)
SetFlagKeepFirst(flags, name, value) ==
    [n \in DOMAIN flags \cup {name} |-> IF n \in DOMAIN flags THEN flags[n] ELSE value]

\* pluginFlags[flagName] = flagValue
SetFlag(flags, name, value) ==
    [n \in DOMAIN flags \cup {name} |-> IF n = name THEN value ELSE flags[n]]

\* attribute("operator").as_string("And")
OperatorType(node) == IF node.operator = NoAttr THEN "And" ELSE node.operator

\* attribute(...).value(): "" when the attribute is missing
AttrValue(a) == IF a = NoAttr THEN "" ELSE a

\* (a lookup through operator[] alone, where a missing key reads as "")
FlagMatchesIgnoringAbsence(flags, dep) ==
    LET flagName == AttrValue(dep.flag)
        requiredValue == AttrValue(dep.value)
    IN  IF flagName \in DOMAIN flags THEN flags[flagName] = requiredValue
        ELSE requiredValue = ""

\* One iteration of the loop of areDependenciesMet, lines 310-317.
FlagMatches(flags, dep) ==
    LET flagName == AttrValue(dep.flag)
        requiredValue == AttrValue(dep.value)
        flagExists == flagName \in DOMAIN flags
    IN  flagExists /\ flags[flagName] = requiredValue

\* (a loop whose second branch is a plain else)
RECURSIVE DepLoopElseOr(_, _, _, _, _)
DepLoopElseOr(operatorType, deps, i, flags, result) ==
    IF i > Len(deps) THEN result
    ELSE LET flagMatches == FlagMatches(flags, deps[i])
         IN  DepLoopElseOr(operatorType, deps, i + 1, flags,
                           IF operatorType = "And" THEN result /\ flagMatches
                           ELSE result \/ flagMatches)

RECURSIVE DepLoop(_, _, _, _, _)
DepLoop(operatorType, deps, i, flags, result) ==
    IF i > Len(deps) THEN result
    ELSE LET flagMatches == FlagMatches(flags, deps[i])
         IN  DepLoop(operatorType, deps, i + 1, flags,
                     IF operatorType = "And" THEN result /\ flagMatches
                     ELSE IF operatorType = "Or" THEN result \/ flagMatches
                     ELSE result)

\* std::unordered_map::operator[]: a key that is missing is inserted with a
\* value-initialised (empty) string before the reference is returned.
OperatorIndex(flags, name) ==
    IF name \in DOMAIN flags THEN flags ELSE SetFlag(flags, name, "")

\* (a lookup that indexes the table whatever find() returned)
FlagsAfterLookupInserting(flags, dep) == OperatorIndex(flags, AttrValue(dep.flag))

\* Lines 312-313: the table after one iteration of the loop: find() inserts
\* nothing, and pluginFlags[flagName] is evaluated only when flagExists.
FlagsAfterLookup(flags, dep) ==
    LET flagName == AttrValue(dep.flag)
        flagExists == flagName \in DOMAIN flags
    IN  IF flagExists THEN OperatorIndex(flags, flagName) ELSE flags

\* Lines 309-318: the table after the whole loop of areDependenciesMet.
RECURSIVE FlagsAfterDependencies(_, _, _)
FlagsAfterDependencies(deps, i, flags) ==
    IF i > Len(deps) THEN flags
    ELSE FlagsAfterDependencies(deps, i + 1, FlagsAfterLookup(flags, deps[i]))

\* (an evaluator whose result starts as true for every operator)
AreDependenciesMetOrStartsTrue(dependenciesNode, flags) ==
    DepLoop(OperatorType(dependenciesNode), dependenciesNode.deps, 1, flags, TRUE)

\* bool areDependenciesMet(const pugi::xml_node&), reading the table `flags`.
AreDependenciesMet(dependenciesNode, flags) ==
    LET operatorType == OperatorType(dependenciesNode)
    IN  DepLoop(operatorType, dependenciesNode.deps, 1, flags, operatorType = "And")

\* void extractFlags(const pugi::xml_node&): conditionFlags/flag, in order.
RECURSIVE ExtractFlagsLoop(_, _, _)
ExtractFlagsLoop(flagNodes, i, flags) ==
    IF i > Len(flagNodes) THEN flags
    ELSE LET flagName == AttrValue(flagNodes[i].name)
             flagValue == flagNodes[i].text
         IN  ExtractFlagsLoop(flagNodes, i + 1,
                 IF flagName # "" THEN SetFlag(flags, flagName, flagValue) ELSE flags)

extractFlags(pluginNode, flags) == ExtractFlagsLoop(pluginNode.conditionFlags, 1, flags)

(***************************************************************************)
(* Names occurring in the archives, as character sequences.                *)
(***************************************************************************)
nModA == << "M", "o", "d", "A" >>
nModaLower == << "m", "o", "d", "a" >>
nModB == << "M", "o", "d", "B" >>
nModbLower == << "m", "o", "d", "b" >>
nOther == << "o", "t", "h", "e", "r" >>
nATxt == << "a", ".", "t", "x", "t" >>
nFomodMixed == << "F", "o", "m", "o", "d" >>
nFomodUpper == << "F", "O", "M", "O", "D" >>
nFomodLower == << "f", "o", "m", "o", "d" >>
nModuleConfig == << "M", "o", "d", "u", "l", "e", "C", "o", "n", "f", "i", "g", ".", "x", "m", "l" >>
nSKSE == << "S", "K", "S", "E" >>
nMeshes == << "m", "e", "s", "h", "e", "s" >>
nTextures == << "t", "e", "x", "t", "u", "r", "e", "s" >>
nInterface == << "i", "n", "t", "e", "r", "f", "a", "c", "e" >>
nSound == << "s", "o", "u", "n", "d" >>
nScripts == << "s", "c", "r", "i", "p", "t", "s" >>
nSeq == << "s", "e", "q" >>

(***************************************************************************)
(* The extracted tree: a set of entries [path, dir], path relative to      *)
(* archiveRoot = newTempDir/"archive".  Locations named in copy calls are  *)
(* [root, dir, attr]: root "archive" is newTempDir/archive, "unfomod" is   *)
(* newTempDir/unfomod, "mod" is modDirectory; dir is a component list      *)
(* below the root and attr an XML source/destination attribute appended    *)
(* to it ("" when nothing is appended).                                    *)
(***************************************************************************)
Loc(root, dir, attr) == [root |-> root, dir |-> dir, attr |-> attr]
CopyFile(src, dst) == [op |-> "copyFile", src |-> src, dst |-> dst]
CopyFolder(src, dst) == [op |-> "copyFolder", src |-> src, dst |-> dst]

Filename(p) == p[Len(p)]
ParentPath(p) == SubSeq(p, 1, Len(p) - 1)

\* fs::exists(root / p): any kind of entry.
Exists(t, p) == \E n \in t : n.path = p

\* the entries fs::directory_iterator(root / p) yields
DirectoryEntries(t, p) == {n \in t : Len(n.path) = Len(p) + 1 /\ ParentPath(n.path) = p}

\* Lines 422-426: the directories the scan of archiveRoot accepts.
FomodMatches(t) ==
    {n \in t : /\ n.dir
               /\ to_lower(Filename(n.path)) = nFomodLower
               /\ Exists(t, n.path \o << nModuleConfig >>)}

\* Lines 448-455: the names probed below each direct child directory.
MarkerNames == {nSKSE, nMeshes, nTextures, nInterface, nSound, nScripts, nSeq}

\* Lines 444-459: mainModFolders.
MainModFolders(t) ==
    {e \in DirectoryEntries(t, << >>) :
        e.dir /\ \E m \in MarkerNames : Exists(t, e.path \o << m >>)}

\* (a comparison of the folder name as it is spelled)
ModuleNameMatchesExact(mainModFolders, moduleNameLower) ==
    {p \in mainModFolders : Filename(p.path) = moduleNameLower}

\* Lines 478-484: matches.
ModuleNameMatches(mainModFolders, moduleNameLower) ==
    {p \in mainModFolders : to_lower(Filename(p.path)) = moduleNameLower}

\* (a copy that keeps the folder as a level of the destination)
HoistNested(folder, entry) ==
    IF entry.dir
    THEN CopyFolder(Loc("archive", entry.path, ""),
                    Loc("mod", << Filename(folder.path), Filename(entry.path) >>, ""))
    ELSE CopyFile(Loc("archive", entry.path, ""),
                  Loc("mod", << Filename(folder.path), Filename(entry.path) >>, ""))

\* Lines 466-471 and 494-499: one copy call for one directory entry.
Hoist(folder, entry) ==
    IF entry.dir
    THEN CopyFolder(Loc("archive", entry.path, ""), Loc("mod", << Filename(entry.path) >>, ""))
    ELSE CopyFile(Loc("archive", entry.path, ""), Loc("mod", << Filename(entry.path) >>, ""))

\* The orders in which a directory iterator may yield a set of entries.
Orders(S) == {s \in [1..Cardinality(S) -> S] : \A a \in S : \E i \in DOMAIN s : s[i] = a}

\* Lines 508-509: the fallback copy of the whole archive root.
RootCopy == << CopyFolder(Loc("archive", << >>, ""), Loc("mod", << >>, "")) >>

(***************************************************************************)
(* Inputs: archives.                                                       *)
(***************************************************************************)
Dir(p) == [path |-> p, dir |-> TRUE]
File(p) == [path |-> p, dir |-> FALSE]

TreeUniverse ==
    { Dir(<< nModA >>), Dir(<< nModA, nMeshes >>), File(<< nModA, nATxt >>),
      Dir(<< nModA, nFomodUpper >>), File(<< nModA, nFomodUpper, nModuleConfig >>),
      Dir(<< nModaLower >>), Dir(<< nModaLower, nTextures >>),
      Dir(<< nModB >>), Dir(<< nModB, nSKSE >>), File(<< nModB, nSeq >>),
      Dir(<< nFomodMixed >>), File(<< nFomodMixed, nModuleConfig >>) }

\* every entry of an extracted tree lies in a directory of the tree
WellFormedTree(t) ==
    \A n \in t : Len(n.path) > 1 => Dir(ParentPath(n.path)) \in t

Trees == {t \in SUBSET TreeUniverse : WellFormedTree(t)}

(***************************************************************************)
(* Inputs: the JSON file next to the archive.  moduleName.kind is "absent" *)
(* (no such key), "string" or "other" (a key whose value is no string).    *)
(***************************************************************************)
NoField == [kind |-> "absent", str |-> << >>]
StringField(s) == [kind |-> "string", str |-> s]
OtherField == [kind |-> "other", str |-> << >>]
NoInstallFiles == [isArray |-> FALSE, items |-> << >>]

JsonMissing ==
    [exists |-> FALSE, parses |-> FALSE, moduleName |-> NoField, installFiles |-> NoInstallFiles]
JsonMalformed ==
    [exists |-> TRUE, parses |-> FALSE, moduleName |-> NoField, installFiles |-> NoInstallFiles]
Json(moduleName, installFiles) ==
    [exists |-> TRUE, parses |-> TRUE, moduleName |-> moduleName, installFiles |-> installFiles]

ModuleNameFields ==
    { NoField, OtherField, StringField(<< >>), StringField(nModbLower), StringField(nModB),
      StringField(nModaLower), StringField(nOther) }

LayoutJsons ==
    {JsonMissing, JsonMalformed} \cup {Json(m, NoInstallFiles) : m \in ModuleNameFields}

(***************************************************************************)
(* The file system the copy calls act on.  A directory tree is a function  *)
(* from the paths of its entries (component lists below its root, the root *)
(* itself left out) to DirMark for a directory and to the identity of the  *)
(* content for a regular file.  A source or destination attribute is one   *)
(* component unless PathOf lists it; a component made of an attribute a is  *)
(* << a >>.                                                                *)
(***************************************************************************)
DirMark == << "directory" >>
EmptyFs == [q \in {} |-> DirMark]

\* fs::path(base) / attribute: the components the attribute adds
PathOf(attr) ==
    IF attr = "" THEN << >>
    ELSE IF attr = "sub/deep.esp" THEN << << "sub" >>, << "deep.esp" >> >>
    ELSE << << attr >> >>

\* the extracted archive as a directory tree; a file is its own content
ArchiveFs(t) ==
    [q \in {n.path : n \in t} |->
        IF Dir(q) \in t THEN DirMark ELSE << "archive", q >>]

\* fs::create_directories(root / q): throws when q or a directory above it
\* exists and is no directory
CanCreateDirectories(fs, q) ==
    \A k \in 1..Len(q) : SubSeq(q, 1, k) \in DOMAIN fs => fs[SubSeq(q, 1, k)] = DirMark

CreateDirectories(fs, q) ==
    [r \in DOMAIN fs \cup {SubSeq(q, 1, k) : k \in 1..Len(q)} |->
        IF r \in DOMAIN fs THEN fs[r] ELSE DirMark]

IsDirectory(fs, q) == q = << >> \/ (q \in DOMAIN fs /\ fs[q] = DirMark)

\* Lines 390-402, copyFile(src, dst): "missing" when the source does not
\* exist; create_directories of the parent is outside the try block and
\* "fatal" when it throws; fs::copy_file throws into the catch ("error")
\* unless the source is a regular file and the target no directory.
CopyFileEffect(srcFs, sp, dstFs, dp) ==
    IF sp # << >> /\ sp \notin DOMAIN srcFs THEN [fs |-> dstFs, outcome |-> "missing"]
    ELSE IF ~CanCreateDirectories(dstFs, ParentPath(dp))
    THEN [fs |-> dstFs, outcome |-> "fatal"]
    ELSE LET made == CreateDirectories(dstFs, ParentPath(dp))
         IN  IF IsDirectory(srcFs, sp) \/ IsDirectory(made, dp)
             THEN [fs |-> made, outcome |-> "error"]
             ELSE [fs |-> [r \in DOMAIN made \cup {dp} |->
                              IF r = dp THEN srcFs[sp] ELSE made[r]],
                   outcome |-> "copied"]

\* the entries below directory sp, as paths relative to it
EntriesBelow(fs, sp) ==
    {SubSeq(q, Len(sp) + 1, Len(q)) :
        q \in {r \in DOMAIN fs : Len(r) > Len(sp) /\ SubSeq(r, 1, Len(sp)) = sp}}

\* Line 383 for the directory entries of depth k and deeper, parents first:
\* fs::copy(directory, target, overwrite_existing).  By the wording of the
\* standard the call has no effect for these options; a library that reads
\* the options as LWG 3057 proposes creates the target directory.  Both are
\* builds of this code: copiesDirectories says which one runs.
RECURSIVE CopyDirectoryEntries(_, _, _, _, _)
CopyDirectoryEntries(dirs, fs, dp, k, copiesDirectories) ==
    IF ~copiesDirectories \/ \A r \in dirs : Len(r) < k THEN fs
    ELSE LET targets == {dp \o r : r \in {d \in dirs : Len(d) = k}}
             created == {t \in targets : /\ IsDirectory(fs, ParentPath(t))
                                          /\ t \notin DOMAIN fs}
         IN  CopyDirectoryEntries(dirs,
                 [q \in DOMAIN fs \cup created |-> IF q \in DOMAIN fs THEN fs[q] ELSE DirMark],
                 dp, k + 1, copiesDirectories)

\* Lines 375-388, copyFolder(src, dst): "missing" when the source does not
\* exist; create_directories(dst) and the construction of the recursive
\* iterator are outside the try block ("fatal" when dst is or lies below a
\* regular file, or src is no directory); each entry is then copied with
\* fs::copy(..., overwrite_existing) inside the try block: a regular file
\* needs the directory of its target to exist and goes into the target
\* when that is a directory.
CopyFolderEffect(srcFs, sp, dstFs, dp, copiesDirectories) ==
    IF sp # << >> /\ sp \notin DOMAIN srcFs THEN [fs |-> dstFs, outcome |-> "missing"]
    ELSE IF ~CanCreateDirectories(dstFs, dp) THEN [fs |-> dstFs, outcome |-> "fatal"]
    ELSE IF ~IsDirectory(srcFs, sp)
    THEN [fs |-> CreateDirectories(dstFs, dp), outcome |-> "fatal"]
    ELSE LET below == EntriesBelow(srcFs, sp)
             dirs == {r \in below : srcFs[sp \o r] = DirMark}
             withDirs == CopyDirectoryEntries(dirs, CreateDirectories(dstFs, dp), dp, 1,
                                              copiesDirectories)
             target(r) == IF IsDirectory(withDirs, dp \o r)
                          THEN dp \o r \o << Filename(r) >> ELSE dp \o r
             written == {r \in below \ dirs :
                            /\ IsDirectory(withDirs, ParentPath(dp \o r))
                            /\ ~IsDirectory(withDirs, target(r))}
             content(q) == srcFs[sp \o (CHOOSE r \in written : target(r) = q)]
         IN  [fs |-> [q \in DOMAIN withDirs \cup {target(r) : r \in written} |->
                         IF \E r \in written : target(r) = q THEN content(q) ELSE withDirs[q]],
              outcome |-> IF /\ written = below \ dirs
                             /\ copiesDirectories =>
                                   \A r \in dirs : IsDirectory(withDirs, dp \o r)
                          THEN "copied" ELSE "error"]

\* the directory at modPath is empty or missing, fs::copy as in the standard
FreshDestination == [unfomod |-> EmptyFs, mod |-> EmptyFs, copiesDirectories |-> FALSE]

\* One copy call on the trees its locations name.  fs::copy_file of line 627
\* stands in no try block: what copyFile would log is thrown here.
ExecuteCall(call, t, d) ==
    LET srcFs == IF call.src.root = "archive" THEN ArchiveFs(t)
                 ELSE IF call.src.root = "jPath" THEN [q \in {<< << "jPath" >> >>} |-> << "json" >>]
                 ELSE d.unfomod
        sp == IF call.src.root = "jPath" THEN << << "jPath" >> >>
              ELSE call.src.dir \o PathOf(call.src.attr)
        dp == call.dst.dir \o PathOf(call.dst.attr)
        r == IF call.op = "copyFolder"
             THEN CopyFolderEffect(srcFs, sp, d[call.dst.root], dp, d.copiesDirectories)
             ELSE CopyFileEffect(srcFs, sp, d[call.dst.root], dp)
    IN  [disk |-> [d EXCEPT ![call.dst.root] = r.fs],
         outcome |-> IF call.op = "fs::copy_file" /\ r.outcome # "copied"
                     THEN "fatal" ELSE r.outcome]

\* The calls made one after the other; an exception leaves the rest unmade.
RECURSIVE Execute(_, _, _, _, _)
Execute(calls, k, t, d, outcomes) ==
    IF k > Len(calls) \/ (outcomes # << >> /\ outcomes[Len(outcomes)] = "fatal")
    THEN [disk |-> d, outcomes |-> outcomes,
          fatal |-> outcomes # << >> /\ outcomes[Len(outcomes)] = "fatal"]
    ELSE LET r == ExecuteCall(calls[k], t, d)
         IN  Execute(calls, k + 1, t, r.disk, Append(outcomes, r.outcome))

(***************************************************************************)
(* Return values and messages of install().                                *)
(***************************************************************************)
modDirectory == "<modPath>"
Dangling == "<bytes of a destroyed exception>"
MsgExtract == "Failed to extract archive"
MsgJsonOpen == "Cannot open JSON config"
MsgJsonParse == "json parse error"
MsgJsonType == "json type error"
MsgXmlParse == "Cannot parse XML"
MsgXPath == "pugi::xpath_exception"
MsgFilesystem == "filesystem error"
MsgNoModuleName == "Multiple mod folders detected but no moduleName in JSON to disambiguate."
MsgNoMatch == "moduleName did not match any folder."
MsgMultiMatch == "moduleName matched multiple folders."
Init ==
    /\ pluginFlags = EmptyFlags
    /\ outputPath = ""
    /\ pc = "idle"
    /\ runs = 0
    /\ tree = {}
    /\ jsonFile = << >>
    /\ xmlDoc = << >>
    /\ fomodFolder = << >>
    /\ selIdx = 1
    /\ nodeIdx = 0
    /\ patIdx = 1
    /\ plan = << >>
    /\ skipped = {}
    /\ finalCalls = << >>
    /\ results = << >>
    /\ disk = FreshDestination
    /\ startFlags = EmptyFlags
    /\ error = ""
    /\ returned = ""
    /\ prev = << >>
    /\ evalNode = << >>
    /\ evalResult = FALSE

\* Lines 637-641: the handler logs, then returns e.what() of an exception
\* object that is destroyed when the handler is left; what the host reads
\* through that pointer is the message or whatever replaced it.
Throw(msg) ==
    /\ pc' = "error"
    /\ error' = msg
    /\ returned' \in {msg, Dangling}
    /\ UNCHANGED outputPath

\* The copy calls of one step are made in their order and recorded; the
\* first exception that no copy lambda catches ends the step.
MakeCopies(calls) ==
    LET r == Execute(calls, 1, tree, disk, << >>)
    IN  /\ plan' = plan \o SubSeq(calls, 1, Len(r.outcomes))
        /\ results' = results \o r.outcomes
        /\ disk' = r.disk

Throws(calls) == Execute(calls, 1, tree, disk, << >>).fatal

\* outputPath = modDirectory; CloseConsoleIfOwned(); return outputPath.c_str();
ReturnOutputPath ==
    /\ pc' = "done"
    /\ outputPath' = modDirectory
    /\ returned' = modDirectory
    /\ error' = ""

\* Lines 352-418: a call of install(): fresh locals, the archive is extracted.
StartInstall(trees, destinations) ==
    /\ pc \in {"idle", "done", "error"}
    /\ runs < MaxRuns
    /\ runs' = runs + 1
    /\ startFlags' = pluginFlags
    /\ jsonFile' = << >>
    /\ xmlDoc' = << >>
    /\ fomodFolder' = << >>
    /\ selIdx' = 1
    /\ nodeIdx' = 0
    /\ patIdx' = 1
    /\ plan' = << >>
    /\ skipped' = {}
    /\ finalCalls' = << >>
    /\ results' = << >>
    /\ \E d \in destinations : disk' = d
    /\ \E extracted \in BOOLEAN :
          IF extracted
          THEN /\ \E t \in trees : tree' = t
               /\ pc' = "classify"
               /\ error' = ""
               /\ returned' = ""
               /\ UNCHANGED outputPath
          ELSE /\ tree' = {}
               /\ Throw(MsgExtract)
    /\ UNCHANGED << pluginFlags, prev, evalNode, evalResult >>

\* Lines 420-428: the scan for a fomod folder; the first one in the
\* (unspecified) traversal order wins.
Classify ==
    /\ pc = "classify"
    /\ LET found == FomodMatches(tree)
       IN  IF found = {}
           THEN fomodFolder' = << >> /\ pc' = "nested"
           ELSE (\E p \in found : fomodFolder' = p.path) /\ pc' = "parse"
    /\ UNCHANGED << pluginFlags, outputPath, runs, tree, jsonFile, xmlDoc, selIdx, nodeIdx,
                    patIdx, plan, skipped, finalCalls, results, disk, startFlags, error,
                    returned, prev, evalNode, evalResult >>

\* Lines 434-441: moduleNameLower.
ModuleNameLower(j) ==
    IF j.exists /\ j.moduleName.kind = "string" THEN to_lower(j.moduleName.str) ELSE << >>

\* (the archive root copied before the candidates are told apart)
CopiesBeforeChoiceRoot(mainModFolders) == RootCopy

\* Lines 473-490: the copy calls made between the count of the candidates
\* and a throw of the 2b branch: none, the loop of 492-497 comes after.
CopiesBeforeChoice(mainModFolders) == << >>

\* Lines 428-515: the nested-folder branch, from the read of the JSON file to
\* the return.
NestedResolve(jsons) ==
    /\ pc = "nested"
    /\ \E j \in jsons :
        /\ jsonFile' = << j >>
        /\ IF j.exists /\ ~j.parses
           THEN Throw(MsgJsonParse) /\ UNCHANGED << plan, results, disk >>
           ELSE LET moduleNameLower == ModuleNameLower(j)
                    mainModFolders == MainModFolders(tree)
                    matches == ModuleNameMatches(mainModFolders, moduleNameLower)
                IN  IF mainModFolders = {}
                    THEN /\ MakeCopies(RootCopy)
                         /\ IF Throws(RootCopy) THEN Throw(MsgFilesystem) ELSE ReturnOutputPath
                    ELSE IF Cardinality(mainModFolders) = 1
                    THEN \E singleMod \in mainModFolders :
                            \E order \in Orders(DirectoryEntries(tree, singleMod.path)) :
                               LET calls == [i \in DOMAIN order |-> Hoist(singleMod, order[i])]
                               IN  /\ MakeCopies(calls)
                                   /\ IF Throws(calls) THEN Throw(MsgFilesystem)
                                      ELSE ReturnOutputPath
                    ELSE IF moduleNameLower = << >>
                    THEN /\ Throw(MsgNoModuleName)
                         /\ MakeCopies(CopiesBeforeChoice(mainModFolders))
                    ELSE IF Cardinality(matches) # 1
                    THEN /\ Throw(IF matches = {} THEN MsgNoMatch ELSE MsgMultiMatch)
                         /\ MakeCopies(CopiesBeforeChoice(mainModFolders))
                    ELSE \E chosen \in matches :
                            \E order \in Orders(DirectoryEntries(tree, chosen.path)) :
                               LET calls == [i \in DOMAIN order |-> Hoist(chosen, order[i])]
                               IN  /\ MakeCopies(calls)
                                   /\ IF Throws(calls) THEN Throw(MsgFilesystem)
                                      ELSE ReturnOutputPath
    /\ UNCHANGED << pluginFlags, runs, tree, xmlDoc, fomodFolder, selIdx, nodeIdx, patIdx,
                    skipped, finalCalls, startFlags, prev, evalNode, evalResult >>

(***************************************************************************)
(* Specification of the classifier and the nested-folder resolver alone:   *)
(* every archive of Trees, every JSON file of LayoutJsons.                 *)
(***************************************************************************)
LayoutStart == StartInstall(Trees, {FreshDestination})
LayoutNested == NestedResolve(LayoutJsons)
NextLayout == LayoutStart \/ Classify \/ LayoutNested
SpecLayout == Init /\ [][NextLayout]_vars

(***************************************************************************)
(* The module configuration (ModuleConfig.xml) as the code queries it.     *)
(*   document: [parses, required, steps, patterns]                         *)
(*   step:     [tag, name, visible, groups]   visible: << >> or << node >> *)
(*   group:    [name, plugins]                                             *)
(*   plugin:   [name, conditionFlags, files]                               *)
(*   pattern:  [dependencies, files]     dependencies: << >> or << node >> *)
(*   file entry: [node, source, destination]                               *)
(*   dependency node: [operator, deps], deps a list of [flag, value]       *)
(* A plugin node is named by << step, group, plugin >> indexes.            *)
(***************************************************************************)
IsSpace(c) == c \in {" ", "\t", "\n", "\r"}

\* XPath normalize-space(): leading and trailing white space stripped, inner
\* runs of white space replaced by one space.
RECURSIVE NormLoop(_, _, _, _)
NormLoop(s, i, out, pending) ==
    IF i > Len(s) THEN out
    ELSE IF IsSpace(s[i]) THEN NormLoop(s, i + 1, out, out # << >>)
    ELSE NormLoop(s, i + 1, (IF pending THEN Append(out, " ") ELSE out) \o << s[i] >>, FALSE)

NormalizeSpace(s) == NormLoop(s, 1, << >>, FALSE)

RECURSIVE Flatten(_)
Flatten(ss) == IF ss = << >> THEN << >> ELSE Head(ss) \o Flatten(Tail(ss))

\* every plugin node of the document, in document order
PluginIds(doc) ==
    Flatten([s \in 1..Len(doc.steps) |->
        Flatten([g \in 1..Len(doc.steps[s].groups) |->
            [q \in 1..Len(doc.steps[s].groups[g].plugins) |-> << s, g, q >>]])])

StepOf(doc, id) == doc.steps[id[1]]
GroupOf(doc, id) == doc.steps[id[1]].groups[id[2]]
PluginOf(doc, id) == doc.steps[id[1]].groups[id[2]].plugins[id[3]]

\* Lines 554-556: the XPath built from one installFiles element,
\*   (//installStep[normalize-space(@name)=S]//optionalFileGroups//group |
\*    //optionalFileGroups//group[normalize-space(@name)=G])
\*   //plugins/plugin[normalize-space(@name)=P]
XPathMatches(doc, id, sel) ==
    /\ NormalizeSpace(PluginOf(doc, id).name) = sel.plugin
    /\ \/ /\ StepOf(doc, id).tag = "installStep"
          /\ NormalizeSpace(StepOf(doc, id).name) = sel.installStep
       \/ NormalizeSpace(GroupOf(doc, id).name) = sel.group

\* Lines 554-556: the three names are pasted between double quotes as they
\* are.  A name without a double quote is the string literal of its
\* comparison; a double quote in a name ends the literal early, and with
\* one such quote (the only kind among the inputs here) the rest is no
\* XPath expression, so that select_nodes throws pugi::xpath_exception.
XPathParses(sel) ==
    \A name \in {sel.installStep, sel.group, sel.plugin} :
        \A i \in DOMAIN name : name[i] # "\""

Reverse(s) == [i \in 1..Len(s) |-> s[Len(s) + 1 - i]]

\* (a node set ordered by node address, an order that changes from one parse
\* of the document to the next)
SelectNodesAddressOrder(doc, sel) ==
    LET nodes == SelectSeq(PluginIds(doc), LAMBDA id : XPathMatches(doc, id, sel))
    IN  IF runs % 2 = 0 THEN Reverse(nodes) ELSE nodes

\* Line 558: doc.select_nodes(xpath), a duplicate-free node set; the nodes
\* are taken in document order.
SelectNodes(doc, sel) ==
    SelectSeq(PluginIds(doc), LAMBDA id : XPathMatches(doc, id, sel))

\* (entries copied into the mod directory at once)
MappedCopiesIntoMod(srcBase, fileNode) ==
    LET src == Loc("archive", srcBase, AttrValue(fileNode.source))
        dst == Loc("mod", << >>, AttrValue(fileNode.destination))
    IN  IF fileNode.node = "file" THEN << CopyFile(src, dst) >>
        ELSE IF fileNode.node = "folder" THEN << CopyFolder(src, dst) >>
        ELSE << >>

\* Lines 535-542, 580-590, 614-622: the copy call made for one child of a
\* requiredInstallFiles or files node, none for an unknown element.
MappedCopies(srcBase, fileNode) ==
    LET src == Loc("archive", srcBase, AttrValue(fileNode.source))
        dst == Loc("unfomod", << >>, AttrValue(fileNode.destination))
    IN  IF fileNode.node = "file" THEN << CopyFile(src, dst) >>
        ELSE IF fileNode.node = "folder" THEN << CopyFolder(src, dst) >>
        ELSE << >>

CopiesOf(srcBase, fileNodes) ==
    Flatten([i \in 1..Len(fileNodes) |-> MappedCopies(srcBase, fileNodes[i])])

\* Line 519: srcBase = fomodFolder.parent_path()
SrcBase(folder) == ParentPath(folder)

\* (required entries of which only the file elements are copied)
RequiredCopiesFilesOnly(doc, srcBase) ==
    CopiesOf(srcBase, SelectSeq(doc.required, LAMBDA f : f.node = "file"))

\* Lines 526-547: the copies of //requiredInstallFiles/*, in document order.
RequiredCopies(doc, srcBase) == CopiesOf(srcBase, doc.required)

\* (the visible node evaluated before the flags of the plugin are extracted)
PluginStepGateFirst(doc, id, srcBase, flags) ==
    LET pluginNode == PluginOf(doc, id)
        installStepNode == StepOf(doc, id)
        skip == /\ installStepNode.tag = "installStep"
                /\ installStepNode.visible # << >>
                /\ ~AreDependenciesMet(installStepNode.visible[1], flags)
    IN  [flags |-> extractFlags(pluginNode, flags),
         skip |-> skip,
         copies |-> IF skip THEN << >> ELSE CopiesOf(srcBase, pluginNode.files)]

\* (the visible node evaluated on a table that already holds the flags of
\* every plugin of the installStep)
PluginStepLookahead(doc, id, srcBase, flags) ==
    LET pluginNode == PluginOf(doc, id)
        installStepNode == StepOf(doc, id)
        siblings == installStepNode.groups[id[2]].plugins
        ahead == ExtractFlagsLoop(Flatten([k \in DOMAIN siblings |-> siblings[k].conditionFlags]),
                                  1, extractFlags(pluginNode, flags))
        skip == /\ installStepNode.visible # << >>
                /\ ~AreDependenciesMet(installStepNode.visible[1], ahead)
    IN  [flags |-> extractFlags(pluginNode, flags),
         skip |-> skip,
         copies |-> IF skip THEN << >> ELSE CopiesOf(srcBase, pluginNode.files)]

\* Lines 559-592: one plugin node of the node set: extractFlags first, then
\* the visible node of the enclosing installStep decides on the files.
PluginStep(doc, id, srcBase, flags) ==
    LET pluginNode == PluginOf(doc, id)
        flagsAfter == extractFlags(pluginNode, flags)
        installStepNode == StepOf(doc, id)
        skip == /\ installStepNode.tag = "installStep"
                /\ installStepNode.visible # << >>
                /\ ~AreDependenciesMet(installStepNode.visible[1], flagsAfter)
        evaluated == installStepNode.tag = "installStep" /\ installStepNode.visible # << >>
    IN  [flags |-> IF evaluated
                   THEN FlagsAfterDependencies(installStepNode.visible[1].deps, 1, flagsAfter)
                   ELSE flagsAfter,
         skip |-> skip,
         copies |-> IF skip THEN << >> ELSE CopiesOf(srcBase, pluginNode.files)]

\* Lines 549-550: the elements of config["installFiles"], none when it is
\* no array.
InstallFiles(j) == IF j.installFiles.isArray THEN j.installFiles.items ELSE << >>

\* (a loop left after its first element)
InstallFilesDoneEarly(items, idx) == idx > 1 \/ idx > Len(items)

\* Line 550: the loop over installFiles has no element left.
InstallFilesDone(items, idx) == idx > Len(items)

\* (a pattern that is skipped unless it has a dependencies node that holds)
PatternCopiesNeedingNode(pattern, srcBase, flags) ==
    IF pattern.dependencies = << >> \/ ~AreDependenciesMet(pattern.dependencies[1], flags)
    THEN << >>
    ELSE CopiesOf(srcBase, pattern.files)

\* Lines 601-623: one pattern of //conditionalFileInstalls/patterns/pattern.
PatternCopies(pattern, srcBase, flags) ==
    IF pattern.dependencies # << >> /\ ~AreDependenciesMet(pattern.dependencies[1], flags)
    THEN << >>
    ELSE CopiesOf(srcBase, pattern.files)

\* Line 603: the table after the dependencies node of a pattern, if it has
\* one, was evaluated.
PatternFlags(pattern, flags) ==
    IF pattern.dependencies # << >>
    THEN FlagsAfterDependencies(pattern.dependencies[1].deps, 1, flags)
    ELSE flags

\* (the unfomod folder copied before the JSON file is put into it)
FinalCopiesFolderFirst ==
    << CopyFolder(Loc("unfomod", << >>, ""), Loc("mod", << >>, "")),
       [op |-> "fs::copy_file", src |-> Loc("jPath", << >>, ""),
        dst |-> Loc("unfomod", << >>, "mo2si.json")] >>

\* Lines 627-630: the JSON file is copied to unfomod/mo2si.json, then the
\* unfomod folder to the mod directory.
FinalCopies ==
    << [op |-> "fs::copy_file", src |-> Loc("jPath", << >>, ""),
        dst |-> Loc("unfomod", << >>, "mo2si.json")],
       CopyFolder(Loc("unfomod", << >>, ""), Loc("mod", << >>, "")) >>

(***************************************************************************)
(* Inputs: module configurations.                                          *)
(***************************************************************************)
sS1 == << "S", "1" >>
sS2 == << "S", "2" >>
gG1 == << "G", "1" >>
gG2Padded == << " ", "G", "2", " " >>
gG2 == << "G", "2" >>
pP1 == << "P", "1" >>
pP2 == << "P", "2" >>
pP9 == << "P", "9" >>
pQuoted == << "P", "\"", "1" >>

Dep(flag, value) == [flag |-> flag, value |-> value]
DepNode(operator, deps) == [operator |-> operator, deps |-> deps]
FlagNode(name, text) == [name |-> name, text |-> text]
FileNode(node, source, destination) ==
    [node |-> node, source |-> source, destination |-> destination]
Plugin(name, conditionFlags, files) ==
    [name |-> name, conditionFlags |-> conditionFlags, files |-> files]
Group(name, plugins) == [name |-> name, plugins |-> plugins]
Step(tag, name, visible, groups) ==
    [tag |-> tag, name |-> name, visible |-> visible, groups |-> groups]
Pattern(dependencies, files) == [dependencies |-> dependencies, files |-> files]

Visibles ==
    { << >>,
      << DepNode("And", << Dep("Quality", "Low") >>) >>,
      << DepNode(NoAttr, << Dep("Quality", "High") >>) >> }

PatternLists ==
    { << >>,
      << Pattern(<< DepNode("And", << Dep("Quality", "High") >>) >>,
                 << FileNode("file", "hq.esp", "hq.esp") >>),
         Pattern(<< >>, << FileNode("folder", "common", NoAttr) >>) >>,
      << Pattern(<< DepNode("Or", << >>) >>, << FileNode("file", "never.esp", "never.esp") >>),
         Pattern(<< DepNode("Or", << Dep("Quality", "Low"), Dep("Quality", "High") >>) >>,
                 << FileNode("file", "any.esp", "main.esp"),
                    FileNode("note", "readme", "readme") >>) >> }

RequiredLists ==
    { << >>,
      << FileNode("file", "core.esp", "core.esp"), FileNode("folder", "base", NoAttr),
         FileNode("note", "readme", "readme") >> }

\* Step S1 holds group " G2 " with a plugin P1, which sets Quality=Low; step
\* S2 (its visible node varies) holds group G1 with another plugin P1, which
\* sets Quality=High, and a plugin P2, which sets no flag.
Document(required, visible, patterns) ==
    [parses |-> TRUE,
     required |-> required,
     steps |-> <<
        Step("installStep", sS1, << >>, <<
            Group(gG2Padded, <<
                Plugin(pP1, << FlagNode(NoAttr, "On"), FlagNode("Quality", "Low") >>,
                       << FileNode("file", "lo.esp", "main.esp") >>) >>) >>),
        Step("installStep", sS2, visible, <<
            Group(gG1, <<
                Plugin(pP1, << FlagNode("Quality", "High") >>,
                       << FileNode("file", "hi.esp", "main.esp") >>),
                Plugin(pP2, << >>, << FileNode("folder", "extra", NoAttr) >>) >>) >>) >>,
     patterns |-> patterns]

XmlMalformed == [parses |-> FALSE, required |-> << >>, steps |-> << >>, patterns |-> << >>]

Documents ==
    {XmlMalformed} \cup {Document(RequiredLists_r, v, q) :
                            RequiredLists_r \in RequiredLists, v \in Visibles, q \in PatternLists}

(***************************************************************************)
(* Inputs: installFiles elements.  hasPlugin is FALSE for an element       *)
(* without a "plugin" key; a missing installStep or group reads as "".     *)
(***************************************************************************)
Selector(installStep, group, plugin) ==
    [installStep |-> installStep, group |-> group, hasPlugin |-> TRUE, plugin |-> plugin]

Selectors ==
    { Selector(sS2, gG2, pP1),      \* S1/G2/P1 by its group and S2/G1/P1 by its step
      Selector(sS2, gG1, pP2),      \* S2/G1/P2, by its step and by its group
      Selector(<< >>, gG2, pP1),    \* S1/G2/P1 by its group
      Selector(sS1, gG1, pP9),      \* no plugin node
      Selector(sS1, gG1, pQuoted),  \* no plugin node; the name holds a double quote
      [installStep |-> sS2, group |-> gG1, hasPlugin |-> FALSE, plugin |-> << >>] }

SelectorLists ==
    UNION {[1..n -> Selectors] : n \in 0..MaxSelectors}

EngineJsons ==
    {JsonMissing, JsonMalformed, Json(StringField(nModB), NoInstallFiles)}
        \cup {Json(NoField, [isArray |-> TRUE, items |-> l]) : l \in SelectorLists}

\* an archive with fomod at its root, one with FOMOD inside ModA, one without
EngineTrees ==
    { {Dir(<< nFomodMixed >>), File(<< nFomodMixed, nModuleConfig >>)},
      {Dir(<< nModA >>), Dir(<< nModA, nFomodUpper >>),
       File(<< nModA, nFomodUpper, nModuleConfig >>)},
      {Dir(<< nModA >>), Dir(<< nModA, nMeshes >>)} }

(***************************************************************************)
(* The module-config branch of install(), lines 517-635.                   *)
(***************************************************************************)
\* Lines 523-524: parseJson(jPath), then parseXml(xPath).
ParseConfigs(jsons, docs) ==
    /\ pc = "parse"
    /\ \E j \in jsons :
        /\ jsonFile' = << j >>
        /\ IF ~j.exists THEN Throw(MsgJsonOpen) /\ xmlDoc' = << >>
           ELSE IF ~j.parses THEN Throw(MsgJsonParse) /\ xmlDoc' = << >>
           ELSE \E x \in docs :
                  /\ xmlDoc' = << x >>
                  /\ IF ~x.parses THEN Throw(MsgXmlParse)
                     ELSE pc' = "phaseA" /\ UNCHANGED << error, returned, outputPath >>
    /\ UNCHANGED << pluginFlags, runs, tree, fomodFolder, selIdx, nodeIdx, patIdx, plan,
                    skipped, finalCalls, results, disk, startFlags, prev, evalNode,
                    evalResult >>

\* Lines 526-547: the required install files.
PhaseA ==
    /\ pc = "phaseA"
    /\ LET calls == RequiredCopies(xmlDoc[1], SrcBase(fomodFolder))
       IN  /\ MakeCopies(calls)
           /\ IF Throws(calls) THEN Throw(MsgFilesystem)
              ELSE pc' = "phaseB" /\ UNCHANGED << outputPath, error, returned >>
    /\ UNCHANGED << pluginFlags, runs, tree, jsonFile, xmlDoc, fomodFolder, selIdx,
                    nodeIdx, patIdx, skipped, finalCalls, startFlags, prev,
                    evalNode, evalResult >>

\* Lines 550-558: the next element of installFiles: its fields are read
\* (group["plugin"] throws when there is no such key), its XPath is built
\* and compiled (select_nodes throws when it does not parse) and selected.
BeginSelector ==
    /\ pc = "phaseB"
    /\ nodeIdx = 0
    /\ ~InstallFilesDone(InstallFiles(jsonFile[1]), selIdx)
    /\ LET sel == InstallFiles(jsonFile[1])[selIdx]
       IN  IF ~sel.hasPlugin
           THEN Throw(MsgJsonType) /\ UNCHANGED << selIdx, nodeIdx >>
           ELSE IF ~XPathParses(sel)
           THEN Throw(MsgXPath) /\ UNCHANGED << selIdx, nodeIdx >>
           ELSE /\ IF SelectNodes(xmlDoc[1], sel) = << >>
                   THEN selIdx' = selIdx + 1 /\ nodeIdx' = 0
                   ELSE selIdx' = selIdx /\ nodeIdx' = 1
                /\ UNCHANGED << pc, error, returned, outputPath >>
    /\ UNCHANGED << pluginFlags, runs, tree, jsonFile, xmlDoc, fomodFolder, patIdx, plan,
                    skipped, finalCalls, results, disk, startFlags, prev, evalNode,
                    evalResult >>

\* Lines 558-593: the body of the loop over the selected plugin nodes.
ProcessPlugin ==
    /\ pc = "phaseB"
    /\ nodeIdx >= 1
    /\ LET nodes == SelectNodes(xmlDoc[1], InstallFiles(jsonFile[1])[selIdx])
           step == PluginStep(xmlDoc[1], nodes[nodeIdx], SrcBase(fomodFolder), pluginFlags)
       IN  /\ pluginFlags' = step.flags
           /\ MakeCopies(step.copies)
           /\ skipped' = IF step.skip THEN skipped \cup {nodes[nodeIdx]} ELSE skipped
           /\ IF Throws(step.copies)
              THEN Throw(MsgFilesystem) /\ UNCHANGED << nodeIdx, selIdx >>
              ELSE /\ IF nodeIdx < Len(nodes)
                      THEN nodeIdx' = nodeIdx + 1 /\ selIdx' = selIdx
                      ELSE nodeIdx' = 0 /\ selIdx' = selIdx + 1
                   /\ UNCHANGED << outputPath, pc, error, returned >>
    /\ UNCHANGED << runs, tree, jsonFile, xmlDoc, fomodFolder, patIdx,
                    finalCalls, startFlags, prev, evalNode, evalResult >>

\* Lines 595-600: the loop over installFiles is left (or was never entered).
EndInstallFiles ==
    /\ pc = "phaseB"
    /\ nodeIdx = 0
    /\ InstallFilesDone(InstallFiles(jsonFile[1]), selIdx)
    /\ pc' = "phaseC"
    /\ UNCHANGED << pluginFlags, outputPath, runs, tree, jsonFile, xmlDoc, fomodFolder, selIdx,
                    nodeIdx, patIdx, plan, skipped, finalCalls, results, disk, startFlags,
                    error, returned, prev, evalNode, evalResult >>

\* Lines 600-624: the body of the loop over the conditional patterns.
ProcessPattern ==
    /\ pc = "phaseC"
    /\ patIdx <= Len(xmlDoc[1].patterns)
    /\ LET calls == PatternCopies(xmlDoc[1].patterns[patIdx], SrcBase(fomodFolder),
                                   pluginFlags)
       IN  /\ MakeCopies(calls)
           /\ IF Throws(calls) THEN Throw(MsgFilesystem) /\ UNCHANGED patIdx
              ELSE patIdx' = patIdx + 1 /\ UNCHANGED << outputPath, pc, error, returned >>
    /\ pluginFlags' = PatternFlags(xmlDoc[1].patterns[patIdx], pluginFlags)
    /\ UNCHANGED << runs, tree, jsonFile, xmlDoc, fomodFolder,
                    selIdx, nodeIdx, skipped, finalCalls, startFlags, prev,
                    evalNode, evalResult >>

\* Lines 626-635: the JSON file and the unfomod folder are copied, the
\* temporary directory removed, modDirectory returned.
Finalize ==
    /\ pc = "phaseC"
    /\ patIdx > Len(xmlDoc[1].patterns)
    /\ LET r == Execute(FinalCopies, 1, tree, disk, << >>)
       IN  /\ finalCalls' = SubSeq(FinalCopies, 1, Len(r.outcomes))
           /\ IF r.fatal
              THEN disk' = r.disk /\ Throw(MsgFilesystem)
              ELSE disk' = [r.disk EXCEPT !.unfomod = EmptyFs] /\ ReturnOutputPath
    /\ UNCHANGED << pluginFlags, runs, tree, jsonFile, xmlDoc, fomodFolder, selIdx, nodeIdx,
                    patIdx, plan, skipped, results, startFlags, prev, evalNode, evalResult >>

(***************************************************************************)
(* Specification of install(): a host process that calls it up to MaxRuns  *)
(* times, on any archive of EngineTrees with any JSON file of EngineJsons  *)
(* and any module configuration of Documents.                              *)
(***************************************************************************)
InstallCall == StartInstall(EngineTrees, {FreshDestination})
NestedBranch == NestedResolve(EngineJsons)
Parse == ParseConfigs(EngineJsons, Documents)

Next ==
    \/ InstallCall \/ Classify \/ NestedBranch \/ Parse \/ PhaseA \/ BeginSelector
    \/ ProcessPlugin \/ EndInstallFiles \/ ProcessPattern \/ Finalize

Spec == Init /\ [][Next]_vars

(***************************************************************************)
(* Specification of install() with the copies made on disk: archives that  *)
(* hold what the module configuration names, destinations that are empty   *)
(* or hold files of an earlier install, and both readings of fs::copy on a *)
(* directory.                                                              *)
(***************************************************************************)
\* an archive with Fomod and payload at its root (the folder base holds a
\* file and a folder with a file), one without module configuration and
\* with a single main mod folder, and one with the main mod folders ModA
\* and moda
ExecTrees ==
    { {Dir(<< nFomodMixed >>), File(<< nFomodMixed, nModuleConfig >>),
       File(<< << "core.esp" >> >>), File(<< << "lo.esp" >> >>), File(<< << "any.esp" >> >>),
       Dir(<< << "base" >> >>), File(<< << "base" >>, << "b.esp" >> >>),
       Dir(<< << "base" >>, << "deep" >> >>),
       File(<< << "base" >>, << "deep" >>, << "d.esp" >> >>)},
      {Dir(<< nModA >>), Dir(<< nModA, nMeshes >>), File(<< nModA, << "core.esp" >> >>)},
      {Dir(<< nModA >>), Dir(<< nModA, nMeshes >>), Dir(<< nModaLower >>),
       Dir(<< nModaLower, nMeshes >>), File(<< << "readme.txt" >> >>)} }

\* required entries: two files for one destination; a missing source; a
\* folder entry that names a file; a file and a folder for one destination,
\* in both orders; a file and a folder for the name of the record of
\* line 627; a folder into a sub-folder
ExecDocuments ==
    LET core(dst) == FileNode("file", "core.esp", dst)
        base(dst) == FileNode("folder", "base", dst)
        required == { << >>,
                      << core("main.esp"), FileNode("file", "any.esp", "main.esp") >>,
                      << FileNode("file", "gone.esp", "main.esp"), core("core.esp") >>,
                      << FileNode("folder", "core.esp", "data"), core("main.esp") >>,
                      << core("x"), base("x"), core("main.esp") >>,
                      << base("x"), core("x") >>,
                      << core("mo2si.json") >>,
                      << base("mo2si.json") >>,
                      << base("sub"), core("main.esp") >> }
        patterns == { << >>, << Pattern(<< >>, << FileNode("file", "any.esp", "main.esp") >>) >> }
    IN  {Document(r, << >>, q) : r \in required, q \in patterns}

ExecJsons ==
    { JsonMissing,
      Json(StringField(nModA), NoInstallFiles),
      Json(StringField(nOther), NoInstallFiles),
      Json(NoField, [isArray |-> TRUE, items |-> << >>]),
      Json(NoField, [isArray |-> TRUE, items |-> << Selector(<< >>, gG2, pP1) >>]),
      Json(NoField, [isArray |-> TRUE, items |->
          << Selector(<< >>, gG2, pP1),
             [installStep |-> sS2, group |-> gG1, hasPlugin |-> FALSE, plugin |-> << >>] >>]) }

ExecDestinations ==
    LET old == [q \in {<< << "main.esp" >> >>, << << "mo2si.json" >> >>, << nMeshes >>} |->
                   << "old" >>]
    IN  {[unfomod |-> EmptyFs, mod |-> m, copiesDirectories |-> b] :
            m \in {EmptyFs, old}, b \in BOOLEAN}

NextExec ==
    \/ StartInstall(ExecTrees, ExecDestinations) \/ Classify \/ NestedResolve(ExecJsons)
    \/ ParseConfigs(ExecJsons, ExecDocuments) \/ PhaseA \/ BeginSelector \/ ProcessPlugin
    \/ EndInstallFiles \/ ProcessPattern \/ Finalize

SpecExec == Init /\ [][NextExec]_vars

(***************************************************************************)
(* Specification of a re-install: the host installs an archive and then    *)
(* installs the same archive, with the same JSON file and the same module  *)
(* configuration, again, in the same process or in a new one.              *)
(***************************************************************************)
Outcome ==
    [json |-> jsonFile, xml |-> xmlDoc, fomodFolder |-> fomodFolder,
     startFlags |-> startFlags, plan |-> plan, flags |-> pluginFlags,
     pc |-> pc, error |-> error]

\* install() is called again on the archive of the previous call; in a new
\* process the globals are as constructed (lines 106 and 404).
Reinstall ==
    /\ pc \in {"done", "error"}
    /\ jsonFile # << >>
    /\ runs < MaxRuns
    /\ runs' = runs + 1
    /\ prev' = << Outcome >>
    /\ \E newProcess \in BOOLEAN :
          /\ pluginFlags' = IF newProcess THEN EmptyFlags ELSE pluginFlags
          /\ outputPath' = IF newProcess THEN "" ELSE outputPath
    /\ startFlags' = pluginFlags'
    /\ pc' = "classify"
    /\ jsonFile' = << >>
    /\ xmlDoc' = << >>
    /\ fomodFolder' = << >>
    /\ selIdx' = 1
    /\ nodeIdx' = 0
    /\ patIdx' = 1
    /\ plan' = << >>
    /\ skipped' = {}
    /\ finalCalls' = << >>
    /\ results' = << >>
    /\ disk' = [disk EXCEPT !.unfomod = EmptyFs]
    /\ error' = ""
    /\ returned' = ""
    /\ UNCHANGED << tree, evalNode, evalResult >>

FirstInstall == runs = 0 /\ StartInstall(EngineTrees, {FreshDestination})
SameJson == IF prev = << >> THEN EngineJsons ELSE {prev[1].json[1]}
SameXml == IF prev = << >> \/ prev[1].xml = << >> THEN Documents ELSE {prev[1].xml[1]}
RerunNested == NestedResolve(SameJson)
RerunParse == ParseConfigs(SameJson, SameXml)

NextRerun ==
    \/ FirstInstall \/ Reinstall \/ Classify \/ RerunNested \/ RerunParse \/ PhaseA
    \/ BeginSelector \/ ProcessPlugin \/ EndInstallFiles \/ ProcessPattern \/ Finalize

SpecRerun == Init /\ [][NextRerun]_vars

(***************************************************************************)
(* Specification of the dependency evaluator alone: areDependenciesMet is  *)
(* applied to any dependency node of DependencyNodes over any flag table   *)
(* of FlagTables.                                                          *)
(***************************************************************************)
FlagTables ==
    {t \in UNION {[names -> {"High", "high", ""}] : names \in SUBSET {"Quality", "Mode"}} :
        "Mode" \in DOMAIN t => t["Mode"] # "high"}

Assertions ==
    {Dep("Quality", "High"), Dep("Quality", "high"), Dep("Quality", ""), Dep("Mode", "")}

DependencyNodes ==
    {DepNode(operator, deps) :
        operator \in {NoAttr, "And", "Or", "and", "Xor"},
        deps \in UNION {[1..n -> Assertions] : n \in 0..MaxDeps}}

InitEval ==
    /\ pluginFlags \in FlagTables
    /\ outputPath = ""
    /\ pc = "idle"
    /\ runs = 0
    /\ tree = {}
    /\ jsonFile = << >>
    /\ xmlDoc = << >>
    /\ fomodFolder = << >>
    /\ selIdx = 1
    /\ nodeIdx = 0
    /\ patIdx = 1
    /\ plan = << >>
    /\ skipped = {}
    /\ finalCalls = << >>
    /\ results = << >>
    /\ disk = FreshDestination
    /\ startFlags = pluginFlags
    /\ error = ""
    /\ returned = ""
    /\ prev = << >>
    /\ evalNode = << >>
    /\ evalResult = FALSE

\* a call areDependenciesMet(node), lines 306-320
Evaluate ==
    /\ \E node \in DependencyNodes :
          /\ evalNode' = << node >>
          /\ evalResult' = AreDependenciesMet(node, pluginFlags)
          /\ pluginFlags' = FlagsAfterDependencies(node.deps, 1, pluginFlags)
    /\ UNCHANGED << outputPath, pc, runs, tree, jsonFile, xmlDoc, fomodFolder,
                    selIdx, nodeIdx, patIdx, plan, skipped, finalCalls, results, disk,
                    startFlags, error, returned, prev >>

NextEval == Evaluate
SpecEval == InitEval /\ [][NextEval]_vars

(***************************************************************************)
(* Vocabulary of the properties, stated without the code's conversions.    *)
(***************************************************************************)
\* two characters that are one letter in either case, or the same character
SameLetter(x, y) ==
    x = y \/ \E k \in 1..Len(UpperChars) : {x, y} = {UpperChars[k], LowerChars[k]}

\* equality of names up to the case of letters
EqualsIgnoreCase(a, b) ==
    Len(a) = Len(b) /\ \A i \in 1..Len(a) : SameLetter(a[i], b[i])

\* the extracted tree holds a fomod directory, in any spelling of its case
\* and at any depth, that directly contains ModuleConfig.xml
HasFomodDescriptor(t) ==
    \E d \in t : /\ d.dir
                 /\ EqualsIgnoreCase(Filename(d.path), nFomodLower)
                 /\ \E c \in t : c.path = d.path \o << nModuleConfig >>

\* the call is past the classifier on the nested-folder branch and has read
\* (or found missing) a well-formed JSON file
NestedFinished ==
    /\ pc \in {"done", "error"}
    /\ fomodFolder = << >>
    /\ jsonFile # << >>
    /\ ~jsonFile[1].exists \/ jsonFile[1].parses

\* the direct child directories of the archive root that hold an entry named
\* like a marker
CandidateFolders(t) ==
    {d \in t : /\ d.dir /\ Len(d.path) = 1
               /\ \E c \in t : Len(c.path) = 2 /\ c.path[1] = d.path[1]
                                /\ c.path[2] \in MarkerNames}

\* the direct child directories of the archive root that hold a marker
\* subfolder
MarkerSubfolderParents(t) ==
    {d \in t : /\ d.dir /\ Len(d.path) = 1
               /\ \E c \in t : c.dir /\ Len(c.path) = 2 /\ c.path[1] = d.path[1]
                                /\ c.path[2] \in MarkerNames}

ImmediateChildren(t, d) == {c \in t : Len(c.path) = 2 /\ c.path[1] = d.path[1]}

\* the plan entry that hoists child c of a candidate to the destination root
HoistedEntry(c) ==
    [op |-> IF c.dir THEN "copyFolder" ELSE "copyFile",
     src |-> [root |-> "archive", dir |-> c.path, attr |-> ""],
     dst |-> [root |-> "mod", dir |-> << c.path[2] >>, attr |-> ""]]

PlanSet == {plan[i] : i \in DOMAIN plan}

\* the plan is exactly the hoisting of the immediate children of d
PlanHoists(d) ==
    /\ Len(plan) = Cardinality(ImmediateChildren(tree, d))
    /\ PlanSet = {HoistedEntry(c) : c \in ImmediateChildren(tree, d)}

Succeeded == pc = "done" /\ returned = modDirectory /\ error = ""
FailedWith(msg) == pc = "error" /\ error = msg

\* the disambiguation key of the JSON file, << >> when there is none
ModuleNameKey ==
    IF jsonFile # << >> /\ jsonFile[1].exists /\ jsonFile[1].moduleName.kind = "string"
    THEN jsonFile[1].moduleName.str ELSE << >>

KeyMatches == {d \in CandidateFolders(tree) : EqualsIgnoreCase(d.path[1], ModuleNameKey)}

\* an assertion is satisfied by a table: the flag is a key and its value is
\* the required one
Satisfied(table, a) == \E n \in DOMAIN table : n = a.flag /\ table[n] = a.value

\* a dependency node holds in a table
Holds(node, table) ==
    IF node.operator \in {"And", NoAttr}
    THEN \A i \in DOMAIN node.deps : Satisfied(table, node.deps[i])
    ELSE IF node.operator = "Or"
    THEN \E i \in DOMAIN node.deps : Satisfied(table, node.deps[i])
    ELSE FALSE

\* the flags a plugin declares: names, and the value its last declaration gives
DeclaredFlagNames(plugin) ==
    {plugin.conditionFlags[i].name : i \in DOMAIN plugin.conditionFlags} \ {NoAttr, ""}

DeclaredValue(plugin, name) ==
    LET last == CHOOSE i \in DOMAIN plugin.conditionFlags :
                    /\ plugin.conditionFlags[i].name = name
                    /\ \A k \in DOMAIN plugin.conditionFlags :
                          plugin.conditionFlags[k].name = name => k <= i
    IN  plugin.conditionFlags[last].text

\* the copy calls a list of file entries stands for
EntryCopies(fileNodes) ==
    LET kept == SelectSeq(fileNodes, LAMBDA f : f.node \in {"file", "folder"})
    IN  [i \in DOMAIN kept |->
            [op |-> IF kept[i].node = "file" THEN "copyFile" ELSE "copyFolder",
             src |-> [root |-> "archive", dir |-> SubSeq(fomodFolder, 1, Len(fomodFolder) - 1),
                      attr |-> IF kept[i].source = NoAttr THEN "" ELSE kept[i].source],
             dst |-> [root |-> "unfomod", dir |-> << >>,
                      attr |-> IF kept[i].destination = NoAttr THEN ""
                               ELSE kept[i].destination]]]

InEngine == fomodFolder # << >> /\ xmlDoc # << >> /\ xmlDoc[1].parses
SelectorsOfRun == IF jsonFile[1].installFiles.isArray THEN jsonFile[1].installFiles.items ELSE << >>

(***************************************************************************)
(* C1: at the start of every call of install() the flag table is empty.    *)
(***************************************************************************)
C1_FlagTableEmptyAtRunStart == pc # "idle" => startFlags = EmptyFlags

(***************************************************************************)
(* C2: in a module-config run a conditional pattern is evaluated only      *)
(* after every element of installFiles has been processed; the table then  *)
(* holds every flag declared by a selected plugin, with the value the      *)
(* last selected plugin gave it.                                           *)
(***************************************************************************)
C2_PatternsAfterAllSelectors ==
    (pc = "phaseC") =>
        /\ selIdx = Len(SelectorsOfRun) + 1
        /\ nodeIdx = 0
        /\ \A i \in DOMAIN SelectorsOfRun :
              LET nodes == SelectNodes(xmlDoc[1], SelectorsOfRun[i])
              IN  /\ \A k \in DOMAIN nodes :
                        DeclaredFlagNames(PluginOf(xmlDoc[1], nodes[k])) \subseteq DOMAIN pluginFlags
                  /\ (i = Len(SelectorsOfRun) /\ nodes # << >>) =>
                        LET lastPlugin == PluginOf(xmlDoc[1], nodes[Len(nodes)])
                        IN  \A name \in DeclaredFlagNames(lastPlugin) :
                               pluginFlags[name] = DeclaredValue(lastPlugin, name)

\* the first selector sets no flag, the last one sets Quality=High, and the
\* pattern that requires Quality=High has been evaluated and its file mapped
C2_Witness ==
    /\ pc = "phaseC" /\ patIdx = 2
    /\ startFlags = EmptyFlags
    /\ Len(SelectorsOfRun) = 2
    /\ SelectorsOfRun[1] = Selector(sS2, gG1, pP2)
    /\ SelectorsOfRun[2] = Selector(sS2, gG2, pP1)
    /\ xmlDoc[1].steps[2].visible = << >>
    /\ xmlDoc[1].patterns[1].dependencies = << DepNode("And", << Dep("Quality", "High") >>) >>
    /\ "Quality" \notin DOMAIN PluginStep(xmlDoc[1], << 2, 1, 2 >>, << >>, EmptyFlags).flags
    /\ plan[Len(plan)].src.attr = "hq.esp"

(***************************************************************************)
(* C3: when a plugin node matched by a selector is processed, its          *)
(* conditionFlags are in the flag table before the visible predicate of    *)
(* its installStep is evaluated, and they stay whatever the outcome: when  *)
(* the predicate is unsatisfied no file of the plugin is added to the      *)
(* plan, otherwise all of them are; after the run the table still has the  *)
(* flags of every plugin so skipped.                                       *)
(***************************************************************************)
C3_ProcessedPlugin ==
    (pc = "phaseB" /\ nodeIdx >= 1) =>
        LET id == SelectNodes(xmlDoc[1], SelectorsOfRun[selIdx])[nodeIdx]
            plugin == PluginOf(xmlDoc[1], id)
            visible == StepOf(xmlDoc[1], id).visible
        IN  /\ \A name \in DeclaredFlagNames(plugin) :
                  /\ name \in DOMAIN pluginFlags'
                  /\ pluginFlags'[name] = DeclaredValue(plugin, name)
            /\ IF visible # << >> /\ ~Holds(visible[1], pluginFlags')
               THEN plan' = plan /\ id \in skipped' /\ pc' = "phaseB"
               ELSE plan' = plan \o EntryCopies(plugin.files)

C3_SkippedKeepFlags ==
    (pc = "done" /\ InEngine) =>
        \A id \in skipped :
            DeclaredFlagNames(PluginOf(xmlDoc[1], id)) \subseteq DOMAIN pluginFlags

C3_FlagsAppliedFilesGated == [][C3_ProcessedPlugin]_vars /\ []C3_SkippedKeepFlags

\* plugin P1 of step S2 declares Quality=High, the step's visible predicate
\* requires Quality=Low: after the run Quality is High and hi.esp is not mapped
C3_Witness ==
    /\ pc = "done" /\ InEngine
    /\ startFlags = EmptyFlags
    /\ xmlDoc[1].steps[2].visible = << DepNode("And", << Dep("Quality", "Low") >>) >>
    /\ SelectorsOfRun = << Selector(sS2, gG2, pP1) >>
    /\ << 2, 1, 1 >> \in skipped
    /\ pluginFlags["Quality"] = "High"
    /\ \A i \in DOMAIN plan : plan[i].src.attr # "hi.esp"
    /\ \E i \in DOMAIN plan : plan[i].src.attr = "lo.esp"

(***************************************************************************)
(* C4: a dependency node without flag assertions evaluates to true when    *)
(* its operator is And or is absent, and to false when its operator is Or, *)
(* for every flag table.                                                   *)
(***************************************************************************)
C4_ZeroAssertions ==
    (evalNode # << >> /\ evalNode[1].deps = << >>) =>
        /\ evalNode[1].operator \in {"And", NoAttr} => evalResult
        /\ evalNode[1].operator = "Or" => ~evalResult

C4_Witness ==
    /\ evalNode = << DepNode("Or", << >>) >>
    /\ ~evalResult
    /\ pluginFlags # EmptyFlags

(***************************************************************************)
(* C5: an assertion is satisfied iff its flag is a key of the table and    *)
(* the stored value equals the required value exactly; under And the node  *)
(* is true iff all assertions are satisfied, under Or iff at least one is; *)
(* an absent key satisfies no assertion, the one requiring "" included.    *)
(***************************************************************************)
C5_AssertionSemantics ==
    (evalNode # << >>) =>
        LET node == evalNode[1]
            sat(i) == /\ node.deps[i].flag \in DOMAIN pluginFlags
                      /\ pluginFlags[node.deps[i].flag] = node.deps[i].value
        IN  /\ node.operator \in {"And", NoAttr} =>
                  (evalResult <=> \A i \in DOMAIN node.deps : sat(i))
            /\ node.operator = "Or" =>
                  (evalResult <=> \E i \in DOMAIN node.deps : sat(i))

\* Mode is no key and "" is required of it; Quality is stored as "high" and
\* "High" is required: neither assertion is satisfied
C5_Witness ==
    /\ evalNode = << DepNode("Or", << Dep("Mode", ""), Dep("Quality", "High") >>) >>
    /\ "Mode" \notin DOMAIN pluginFlags
    /\ "Quality" \in DOMAIN pluginFlags /\ pluginFlags["Quality"] = "high"
    /\ ~evalResult

C7_Disambiguation ==
    (NestedFinished /\ Cardinality(CandidateFolders(tree)) >= 2) =>
        IF ModuleNameKey = << >> THEN FailedWith(MsgNoModuleName)
        ELSE IF KeyMatches = {} THEN FailedWith(MsgNoMatch)
        ELSE IF Cardinality(KeyMatches) > 1 THEN FailedWith(MsgMultiMatch)
        ELSE Succeeded /\ \A d \in KeyMatches : PlanHoists(d)

\* ModA and ModB are candidates, moduleName "modb" picks ModB
C7_Witness ==
    /\ NestedFinished /\ Succeeded
    /\ Cardinality(CandidateFolders(tree)) >= 2
    /\ ModuleNameKey = nModbLower
    /\ plan # << >>
    /\ \A i \in DOMAIN plan : plan[i].src.dir[1] = nModB

(***************************************************************************)
(* C8: when no direct child directory of the archive root contains a       *)
(* marker subfolder, the nested-folder branch succeeds with a plan of      *)
(* exactly one folder copy, archive root to destination root, whatever     *)
(* moduleName is.                                                          *)
(***************************************************************************)
C8_RootCopyWithoutMarkerSubfolder ==
    (NestedFinished /\ MarkerSubfolderParents(tree) = {}) =>
        /\ Succeeded
        /\ plan = << [op |-> "copyFolder",
                      src |-> [root |-> "archive", dir |-> << >>, attr |-> ""],
                      dst |-> [root |-> "mod", dir |-> << >>, attr |-> ""]] >>

(***************************************************************************)
(* C9: with exactly one candidate folder the plan has one entry per        *)
(* immediate child of the candidate, a file copy for a file and a folder   *)
(* copy for a subfolder, each to destinationRoot/<child name>; the call    *)
(* succeeds whatever moduleName is, also when the JSON file is missing.    *)
(***************************************************************************)
C9_SingleCandidateHoisted ==
    (NestedFinished /\ Cardinality(CandidateFolders(tree)) = 1) =>
        /\ Succeeded
        /\ \A d \in CandidateFolders(tree) : PlanHoists(d)
        /\ \A i \in DOMAIN plan : plan[i].dst.root = "mod" /\ Len(plan[i].dst.dir) = 1

\* ModA alone is a candidate, holds a file and a subfolder, and moduleName
\* names another folder
C9_Witness ==
    /\ NestedFinished /\ Succeeded
    /\ CandidateFolders(tree) = {Dir(<< nModA >>)}
    /\ ModuleNameKey = nModbLower
    /\ \E i, k \in DOMAIN plan : plan[i].op = "copyFile" /\ plan[k].op = "copyFolder"

(***************************************************************************)
(* C10: the classifier finds a descriptor iff the tree holds, at any       *)
(* depth, a directory named fomod up to case that directly contains        *)
(* ModuleConfig.xml; the call goes to the module-config engine exactly     *)
(* then and to the nested-folder resolver otherwise, whatever else the     *)
(* tree holds.                                                             *)
(***************************************************************************)
EnginePcs == {"parse", "phaseA", "phaseB", "phaseC", "finalize"}

C10_Classifier ==
    (pc \notin {"idle", "classify"}) =>
        /\ (fomodFolder # << >>) <=> HasFomodDescriptor(tree)
        /\ pc = "nested" => ~HasFomodDescriptor(tree)
        /\ pc \in EnginePcs => HasFomodDescriptor(tree)
        /\ fomodFolder # << >> =>
              /\ Dir(fomodFolder) \in tree
              /\ File(fomodFolder \o << nModuleConfig >>) \in tree

\* a descriptor two levels down, spelled FOMOD, in a tree that also holds a
\* marker folder
C10_Witness ==
    /\ pc = "parse"
    /\ fomodFolder = << nModA, nFomodUpper >>
    /\ CandidateFolders(tree) # {}

(***************************************************************************)
(* C11: the flag table changes only when the conditionFlags of a selected  *)
(* plugin are applied in Phase B, and then by exactly those flags; Phase   *)
(* A, every evaluation of a visible or dependencies node (a lookup of a    *)
(* name that is no key included), Phase C and the nested-folder branch     *)
(* leave it with the same keys and the same values.                        *)
(***************************************************************************)
C11_TableStep ==
    IF pc = "phaseB" /\ nodeIdx >= 1
    THEN LET id == SelectNodes(xmlDoc[1], SelectorsOfRun[selIdx])[nodeIdx]
             declared == DeclaredFlagNames(PluginOf(xmlDoc[1], id))
         IN  /\ DOMAIN pluginFlags' = DOMAIN pluginFlags \cup declared
             /\ \A name \in DOMAIN pluginFlags' :
                   pluginFlags'[name] = IF name \in declared
                                        THEN DeclaredValue(PluginOf(xmlDoc[1], id), name)
                                        ELSE pluginFlags[name]
    ELSE pluginFlags' = pluginFlags

C11_FlagTableFrame == [][C11_TableStep]_vars

\* a finished module-config run whose only selected plugin declares no flag:
\* its step's visible node and the first pattern both looked Quality up in
\* an empty table, which is empty still
C11_Witness ==
    /\ pc = "done" /\ InEngine
    /\ startFlags = EmptyFlags
    /\ SelectorsOfRun = << Selector(sS2, gG1, pP2) >>
    /\ xmlDoc[1].steps[2].visible = << DepNode("And", << Dep("Quality", "Low") >>) >>
    /\ << 2, 1, 2 >> \in skipped
    /\ Len(xmlDoc[1].patterns) = 2
    /\ xmlDoc[1].patterns[1].dependencies = << DepNode("And", << Dep("Quality", "High") >>) >>
    /\ pluginFlags = EmptyFlags

(***************************************************************************)
(* C12: a plugin node is selected by an installFiles element {installStep, *)
(* group, plugin} iff its name is plugin and (the name of its installStep  *)
(* is installStep or the name of its group is group), names of the         *)
(* document compared after white-space normalisation; a node that meets    *)
(* both the step and the group condition is in the node set once; an       *)
(* element that selects no node adds no flag and no copy and does not make *)
(* the call fail.                                                          *)
(***************************************************************************)
C12_Selected(doc, sel) ==
    {id \in {PluginIds(doc)[k] : k \in DOMAIN PluginIds(doc)} :
        /\ NormalizeSpace(PluginOf(doc, id).name) = sel.plugin
        /\ \/ NormalizeSpace(StepOf(doc, id).name) = sel.installStep
           \/ NormalizeSpace(GroupOf(doc, id).name) = sel.group}

C12_SelectorStep ==
    ( /\ pc = "phaseB" /\ nodeIdx = 0
      /\ selIdx <= Len(SelectorsOfRun)
      /\ SelectorsOfRun[selIdx].hasPlugin ) =>
        LET selected == C12_Selected(xmlDoc[1], SelectorsOfRun[selIdx])
            nodes == SelectNodes(xmlDoc[1], SelectorsOfRun[selIdx])
        IN  IF selected = {}
            THEN /\ pc' = "phaseB" /\ selIdx' = selIdx + 1 /\ nodeIdx' = 0
                 /\ plan' = plan /\ pluginFlags' = pluginFlags
            ELSE /\ pc' = "phaseB" /\ selIdx' = selIdx /\ nodeIdx' = 1
                 /\ {nodes[k] : k \in DOMAIN nodes} = selected
                 /\ Len(nodes) = Cardinality(selected)

C12_InclusiveOrJoin == [][C12_SelectorStep]_vars

(***************************************************************************)
(* C13: once Phase A of a module-config run is over, the plan begins with  *)
(* the copy of every file and folder entry of requiredInstallFiles, in     *)
(* document order, ahead of every entry of Phase B and Phase C, whatever   *)
(* the flag table holds and whatever installFiles selects.                 *)
(***************************************************************************)
C13_RequiredFirst ==
    ( /\ InEngine
      /\ \/ pc \in {"phaseB", "phaseC", "done"}
         \/ pc = "error" /\ error \in {MsgJsonType, MsgXPath} ) =>
        LET required == EntryCopies(xmlDoc[1].required)
        IN  /\ Len(plan) >= Len(required)
            /\ SubSeq(plan, 1, Len(required)) = required

\* a finished run that began with flags of an earlier call, selected two
\* elements and mapped more than the two required entries
C13_Witness ==
    /\ pc = "done" /\ InEngine
    /\ startFlags # EmptyFlags
    /\ Len(xmlDoc[1].required) = 3
    /\ Len(SelectorsOfRun) = 2
    /\ Len(plan) > 2
    /\ plan[1].op = "copyFile" /\ plan[1].src.attr = "core.esp"
    /\ plan[2].op = "copyFolder" /\ plan[2].src.attr = "base"

(***************************************************************************)
(* C14: the JSON file is optional on the module-config branch: a call on   *)
(* an archive with a descriptor whose JSON file is missing, or parses but  *)
(* has no installFiles array, selects no plugin (no flag set, no Phase B   *)
(* copy) and succeeds with the Phase A copies followed by the copies of    *)
(* the patterns whose predicate holds on the unmodified flag table.        *)
(***************************************************************************)
\* the copies of the patterns of doc that have no dependencies node or whose
\* node holds in table, in document order
PatternsPlan(doc, table) ==
    Flatten([i \in DOMAIN doc.patterns |->
        IF \/ doc.patterns[i].dependencies = << >>
           \/ Holds(doc.patterns[i].dependencies[1], table)
        THEN EntryCopies(doc.patterns[i].files)
        ELSE << >>])

C14_OverrideOptional ==
    ( /\ pc \in {"done", "error"}
      /\ fomodFolder # << >>
      /\ jsonFile # << >>
      /\ \/ ~jsonFile[1].exists
         \/ jsonFile[1].parses /\ ~jsonFile[1].installFiles.isArray
      /\ xmlDoc = << >> \/ xmlDoc[1].parses ) =>
        /\ Succeeded
        /\ pluginFlags = startFlags
        /\ plan = EntryCopies(xmlDoc[1].required) \o PatternsPlan(xmlDoc[1], startFlags)

(***************************************************************************)
(* C17: in Phase C the patterns are handled in document order, and the     *)
(* files of a pattern are added to the plan iff the pattern has no         *)
(* dependencies node or its node holds in the table Phase B left: a        *)
(* pattern without node is always included, a pattern whose node has       *)
(* operator Or and no assertion never.                                     *)
(***************************************************************************)
C17_PatternStep ==
    (pc = "phaseC" /\ patIdx <= Len(xmlDoc[1].patterns)) =>
        LET pattern == xmlDoc[1].patterns[patIdx]
            included == \/ pattern.dependencies = << >>
                        \/ Holds(pattern.dependencies[1], pluginFlags)
        IN  /\ patIdx' = patIdx + 1
            /\ plan' = IF included THEN plan \o EntryCopies(pattern.files) ELSE plan
            /\ pattern.dependencies = << DepNode("Or", << >>) >> => plan' = plan

C17_PatternsInOrder == [][C17_PatternStep]_vars

\* Phase B left Quality=High; the pattern with operator Or and no assertion
\* was passed over and the pattern that follows it was included
C17_Witness ==
    /\ pc = "phaseC" /\ patIdx = 3
    /\ "Quality" \in DOMAIN pluginFlags /\ pluginFlags["Quality"] = "High"
    /\ xmlDoc[1].patterns[1].dependencies = << DepNode("Or", << >>) >>
    /\ \A i \in DOMAIN plan : plan[i].src.attr # "never.esp"
    /\ plan # << >> /\ plan[Len(plan)].src.attr = "any.esp"

(***************************************************************************)
(* C18: the visible node that gates a plugin node is evaluated on the      *)
(* table that holds exactly the flags of the plugin nodes processed up to  *)
(* and including this one (on top of the table the call began with),       *)
(* never a flag of a later installFiles element; a plugin that was skipped *)
(* is not taken up again when a later element sets the flag it needed.     *)
(***************************************************************************)
\* table with the declared flags of one plugin applied
C18_Declare(table, plugin) ==
    [n \in DOMAIN table \cup DeclaredFlagNames(plugin) |->
        IF n \in DeclaredFlagNames(plugin) THEN DeclaredValue(plugin, n) ELSE table[n]]

\* table and Phase B copies after the plugin nodes ids[k..] were processed in turn
RECURSIVE C18_Replay(_, _, _, _, _)
C18_Replay(doc, ids, k, table, copies) ==
    IF k > Len(ids) THEN [table |-> table, copies |-> copies]
    ELSE LET plugin == PluginOf(doc, ids[k])
             visible == StepOf(doc, ids[k]).visible
             now == C18_Declare(table, plugin)
         IN  C18_Replay(doc, ids, k + 1, now,
                 IF visible = << >> \/ Holds(visible[1], now)
                 THEN copies \o EntryCopies(plugin.files) ELSE copies)

\* the plugin nodes processed before the current one
C18_Processed ==
    Flatten([i \in 1..(selIdx - 1) |-> SelectNodes(xmlDoc[1], SelectorsOfRun[i])])
        \o (IF nodeIdx >= 1
            THEN SubSeq(SelectNodes(xmlDoc[1], SelectorsOfRun[selIdx]), 1, nodeIdx - 1)
            ELSE << >>)

C18_VisibleStep ==
    (pc = "phaseB" /\ nodeIdx >= 1) =>
        LET id == SelectNodes(xmlDoc[1], SelectorsOfRun[selIdx])[nodeIdx]
            before == C18_Replay(xmlDoc[1], C18_Processed, 1, startFlags, << >>)
            after == C18_Replay(xmlDoc[1], << id >>, 1, before.table, << >>)
        IN  /\ pluginFlags = before.table
            /\ pluginFlags' = after.table
            /\ plan' = plan \o after.copies

C18_PhaseBReplayed ==
    (InEngine /\ pc = "phaseC" /\ patIdx = 1) =>
        LET all == C18_Replay(xmlDoc[1], C18_Processed, 1, startFlags, << >>)
        IN  /\ pluginFlags = all.table
            /\ plan = EntryCopies(xmlDoc[1].required) \o all.copies

C18_VisibleOnCurrentTable == [][C18_VisibleStep]_vars /\ []C18_PhaseBReplayed

\* step S2 is visible when Quality=High; P2 was selected first, on an empty
\* table, and skipped; the next element set Quality=High and mapped hi.esp,
\* and the folder of P2 is still not mapped
C18_Witness ==
    /\ pc = "done" /\ InEngine
    /\ startFlags = EmptyFlags
    /\ xmlDoc[1].steps[2].visible = << DepNode(NoAttr, << Dep("Quality", "High") >>) >>
    /\ SelectorsOfRun = << Selector(sS2, gG1, pP2), Selector(sS2, gG2, pP1) >>
    /\ << 2, 1, 2 >> \in skipped
    /\ pluginFlags["Quality"] = "High"
    /\ \E i \in DOMAIN plan : plan[i].src.attr = "hi.esp"
    /\ \A i \in DOMAIN plan : plan[i].src.attr # "extra"

\* C15: a copy call of the plan that does not copy (its source is missing,
\* or the filesystem reports an error) is skipped and does not end the run
\* with an error.
C15_ItemFailureNonFatal ==
    \A k \in DOMAIN results :
        results[k] # "copied" =>
            ~(pc = "error" /\ error = MsgFilesystem /\ k = Len(results))

C16_Returned ==
    /\ pc = "done" => returned = modDirectory
    /\ pc = "error" => error # "" /\ returned = error

C16_EndedStep ==
    pc \in {"done", "error"} =>
        \/ runs' = runs + 1
        \/ UNCHANGED << pc, plan, results, disk, finalCalls, pluginFlags, returned >>

\* C16: a call ends in one of two states, Done, where the host receives the
\* destination path, or Error, where it receives the error message; the
\* only step after either is the next call, so that a failed run makes no
\* further step or copy.
C16_TwoTerminalStates == []C16_Returned /\ [][C16_EndedStep]_vars

C19_Target(call) == << call.dst.root, call.dst.dir \o PathOf(call.dst.attr) >>

\* entry k copied a file and no later entry that copied targets its
\* destination or a folder above it
C19_LastCopied(k) ==
    /\ plan[k].op = "copyFile"
    /\ results[k] = "copied"
    /\ \A j \in (k + 1)..Len(results) :
          results[j] = "copied" =>
              LET above == C19_Target(plan[j])[2]
                  q == C19_Target(plan[k])[2]
              IN  ~(Len(above) <= Len(q) /\ SubSeq(q, 1, Len(above)) = above)

C19_HoldsLast ==
    \A k \in DOMAIN results :
        C19_LastCopied(k) /\ ~(pc = "done" /\ plan[k].dst.root = "unfomod") =>
            LET q == C19_Target(plan[k])[2]
                dstFs == disk[plan[k].dst.root]
            IN  /\ q \in DOMAIN dstFs
                /\ dstFs[q] = << "archive", plan[k].src.dir \o PathOf(plan[k].src.attr) >>

\* an entry that would not throw as the first of a run does not throw
\* after an entry for the same destination
C19_SharingIsNoError ==
    \A k \in DOMAIN results : \A j \in 1..(k - 1) :
        /\ C19_Target(plan[j]) = C19_Target(plan[k])
        /\ ExecuteCall(plan[k], tree, [disk EXCEPT !.unfomod = EmptyFs, !.mod = EmptyFs]).outcome
               # "fatal"
        => results[k] # "fatal"

\* C19: each destination of the plan holds what the last entry copied to
\* it that succeeded (a pattern's entry over a plugin's, a plugin's over a
\* required one), and two entries for one destination never cause an error.
C19_LastWriteWins == C19_HoldsLast /\ C19_SharingIsNoError

C20_Record == << << "mo2si.json" >> >>

\* a finished module-config run has the JSON file in the mod directory; a
\* finished nested-folder run made no such copy and the mod directory
\* holds no JSON file of this run
C20_Recorded ==
    pc = "done" =>
        IF fomodFolder # << >>
        THEN C20_Record \in DOMAIN disk.mod /\ disk.mod[C20_Record] = << "json" >>
        ELSE /\ finalCalls = << >>
             /\ C20_Record \in DOMAIN disk.mod => disk.mod[C20_Record] # << "json" >>

\* the copy of the JSON file is made when no pattern is left, and the plan
\* is not extended by or after it
C20_AfterPlan ==
    /\ finalCalls' # finalCalls /\ finalCalls' # << >> =>
           /\ patIdx > Len(xmlDoc[1].patterns)
           /\ InstallFilesDone(InstallFiles(jsonFile[1]), selIdx)
           /\ finalCalls'[1].op = "fs::copy_file"
           /\ plan' = plan /\ results' = results
    /\ finalCalls # << >> /\ runs' = runs => plan' = plan /\ disk' = disk

\* C20: a successful module-config run leaves the JSON file as mo2si.json
\* in the mod directory, written after every entry of the plan was
\* executed, so that it replaces what an entry of the plan put under that
\* name; a nested-folder run writes no mo2si.json.  (Destinations of
\* ExecDestinations: no directory named mo2si.json in the mod directory.)
C20_RecordWrittenLast == []C20_Recorded /\ [][C20_AfterPlan]_vars

\* a run that staged core.esp as mo2si.json and finished on a destination
\* of an earlier install
C20_Witness ==
    /\ pc = "done"
    /\ fomodFolder # << >>
    /\ \E k \in DOMAIN plan :
          /\ results[k] = "copied"
          /\ plan[k].dst.dir \o PathOf(plan[k].dst.attr) = C20_Record
    /\ << << "main.esp" >> >> \in DOMAIN disk.mod
    /\ disk.mod[<< << "main.esp" >> >>] = << "old" >>
    /\ disk.mod[C20_Record] = << "json" >>

\* C24: a dependency node whose operator attribute is present and is
\* neither "And" nor "Or" evaluates to false, whatever the flag table and
\* the assertions are, also when every assertion is satisfied.
C24_UnknownOperatorFalse ==
    (evalNode # << >> /\ evalNode[1].operator \notin {NoAttr, "And", "Or"}) => ~evalResult

\* operator "and" with two assertions, both satisfied by the table
C24_Witness ==
    /\ evalNode = << DepNode("and", << Dep("Quality", "High"), Dep("Mode", "") >>) >>
    /\ "Quality" \in DOMAIN pluginFlags /\ pluginFlags["Quality"] = "High"
    /\ "Mode" \in DOMAIN pluginFlags /\ pluginFlags["Mode"] = ""
    /\ ~evalResult

\* within a call no name leaves the table; the step of a selected plugin
\* puts each flag it declares into the table with the declared value, and
\* the visible node of its installStep is decided on the table so set
C21_GrowStep ==
    /\ runs' = runs => \A name \in DOMAIN pluginFlags : name \in DOMAIN pluginFlags'
    /\ (pc = "phaseB" /\ nodeIdx >= 1) =>
          LET id == SelectNodes(xmlDoc[1], SelectorsOfRun[selIdx])[nodeIdx]
              visible == StepOf(xmlDoc[1], id).visible
          IN  /\ \A name \in DeclaredFlagNames(PluginOf(xmlDoc[1], id)) :
                    /\ name \in DOMAIN pluginFlags'
                    /\ pluginFlags'[name] = DeclaredValue(PluginOf(xmlDoc[1], id), name)
              /\ IF visible # << >> /\ ~Holds(visible[1], pluginFlags')
                 THEN id \in skipped' /\ plan' = plan
                 ELSE skipped' = skipped

\* the value of every flag is the one declared by the last processed
\* plugin that declares it, or the value the call began with
C21_LastSetWins ==
    (InEngine /\ pc \in {"phaseB", "phaseC", "done", "error"}) =>
        \A name \in DOMAIN pluginFlags :
            LET ids == C18_Processed
                declaring == {k \in DOMAIN ids :
                                 name \in DeclaredFlagNames(PluginOf(xmlDoc[1], ids[k]))}
            IN  IF declaring = {}
                THEN name \in DOMAIN startFlags /\ pluginFlags[name] = startFlags[name]
                ELSE LET last == CHOOSE k \in declaring : \A m \in declaring : m <= k
                     IN  pluginFlags[name] = DeclaredValue(PluginOf(xmlDoc[1], ids[last]), name)

\* C21: within a run the flag table only grows: a set inserts the name or
\* overwrites its value, no step removes a name, a flag has the value of
\* the most recently processed selected plugin that declares it, and a set
\* is seen by the next evaluation of a dependency node.
C21_TableOnlyGrows == [][C21_GrowStep]_vars /\ []C21_LastSetWins

\* one element selected the plugin that sets Quality=Low and then the one
\* that sets Quality=High, whose step is visible for Quality=High only:
\* the table holds High and hi.esp was mapped
C21_Witness ==
    /\ pc = "done" /\ InEngine
    /\ startFlags = EmptyFlags
    /\ SelectorsOfRun = << Selector(sS2, gG2, pP1) >>
    /\ xmlDoc[1].steps[2].visible = << DepNode(NoAttr, << Dep("Quality", "High") >>) >>
    /\ pluginFlags = [name \in {"Quality"} |-> "High"]
    /\ skipped = {}
    /\ \E i \in DOMAIN plan : plan[i].src.attr = "hi.esp"

C22_Ambiguous == {MsgNoModuleName, MsgNoMatch, MsgMultiMatch}

\* the step that raises the ambiguity made no copy and left both
\* directories as they were, and so did the scan before it
C22_Step ==
    /\ (runs' = runs /\ pc' = "error" /\ error' \in C22_Ambiguous) =>
          /\ pc = "nested"
          /\ plan = << >> /\ plan' = << >> /\ results' = << >>
          /\ disk' = disk
    /\ pc = "classify" => disk' = disk /\ plan' = << >>

\* C22: in a nested-folder run with several candidate folders, a
\* moduleName that is absent, matches none or matches several fails the
\* run before any copy: the mod directory is as it was before the call.
C22_AmbiguityBeforeCopies == [][C22_Step]_vars

\* ModA and moda both match moduleName; the mod directory of an earlier
\* install is as it was
C22_Witness ==
    /\ pc = "error" /\ error = MsgMultiMatch
    /\ fomodFolder = << >>
    /\ plan = << >>
    /\ DOMAIN disk.mod = {<< << "main.esp" >> >>, << << "mo2si.json" >> >>, << nMeshes >>}
    /\ \A q \in DOMAIN disk.mod : disk.mod[q] = << "old" >>

\* in a module-config run the mod directory changes in one step only, the
\* one that ends the run after the last pattern
C23_Step ==
    (runs' = runs /\ fomodFolder' # << >> /\ disk'.mod # disk.mod) =>
        /\ pc = "phaseC" /\ pc' = "done"
        /\ patIdx > Len(xmlDoc[1].patterns)
        /\ Len(finalCalls') = 2

\* every entry of the plan of a module-config run is a copy into the
\* staging directory
C23_Staged ==
    fomodFolder # << >> => \A k \in DOMAIN plan : plan[k].dst.root = "unfomod"

\* C23: in a module-config run nothing is written to the mod directory
\* before the required entries, the selected plugins, the patterns and
\* the copy of the JSON file are done: the plan is executed into the
\* staging directory, and a run that fails on the way leaves the mod
\* directory as it was.
C23_NothingBeforeFinalization == [][C23_Step]_vars /\ []C23_Staged

\* the second installFiles element has no plugin key: the run failed after
\* staging a required file and the file of the first element, and the mod
\* directory of an earlier install is as it was
C23_Witness ==
    /\ pc = "error" /\ error = MsgJsonType
    /\ Len(plan) >= 2
    /\ \A k \in DOMAIN results : results[k] = "copied"
    /\ << << "main.esp" >> >> \in DOMAIN disk.unfomod
    /\ DOMAIN disk.mod = {<< << "main.esp" >> >>, << << "mo2si.json" >> >>, << nMeshes >>}
    /\ \A q \in DOMAIN disk.mod : disk.mod[q] = << "old" >>

====
